---- MODULE Spec2Model ----
(***************************************************************************)
(* The rental_etl_dag of etl_sakila: five PythonOperator tasks, each       *)
(* running etl_tasks (extract, stage, publish, transform, stage, publish,  *)
(* load, then the finally block), scheduled by Airflow with retries = 1    *)
(* and the four dimension tasks upstream of the fact task; and the date    *)
(* dimension transform DateETL.transform_data.                             *)
(***************************************************************************)
EXTENDS Integers, Sequences, FiniteSets, TLC

VARIABLES
    state,            \* Airflow task-instance state of each task in the run
    try_number,       \* attempts of each task started so far in the run
    pc,               \* statement of etl_tasks each running task is at
    exc,              \* exception in flight in each task's attempt ("none")
    orig,             \* exception the try block of the attempt raised ("none")
    source_engine,    \* etl.source_engine of the attempt: none, open, disposed
    warehouse_engine, \* etl.warehouse_engine of the attempt
    files,            \* paths that exist under /opt/airflow/shared
    xcom,             \* XCom entries of each task's current try, in push order
    trace,            \* calls made by the current attempt, with their outcome
    loaded,           \* completed load_data calls per task in the run
    faults,           \* failures injected so far in the run
    extracted,        \* the rows extract_data returned, as they were returned
    df_raw,           \* the frame bound to df_raw in etl_tasks (passed by reference)
    df_transformed,   \* the frame transform_data returned
    date_pc,          \* DateETL: "extracted", then "transformed"
    run_pc,           \* two DAG runs: statement each task execution is at
    writer,           \* two DAG runs: the execution that wrote each staged file
    Config,           \* get_config: the attributes of config.Config
    db_name,          \* get_config: the argument of the call ("default": omitted)
    returned          \* get_config: what the call returned or raised

dagVars == <<state, try_number, pc, exc, orig, source_engine, warehouse_engine,
             files, xcom, trace, loaded, faults>>

dateVars == <<extracted, df_raw, df_transformed, date_pc>>

runVars == <<run_pc, writer>>

configVars == <<Config, db_name, returned>>

auxVars == <<runVars, configVars>>

vars == <<dagVars, dateVars, auxVars>>

----------------------------------------------------------------------------
(* Bounds of the model. *)

\* Failures (raised exceptions, failed removals) injected in one run.
MaxFaults == 2

\* Task instances the executor runs at the same time.
MaxActive == 2

----------------------------------------------------------------------------
(* The task graph: dag.py lines 62-118. *)

\* default_args['retries']
Retries == 1

Dims == {"run_date_etl", "run_film_etl", "run_store_etl", "run_customer_etl"}

Fact == "run_rental_etl"

Tasks == Dims \cup {Fact}

\* op_kwargs['base_file_name'] of each PythonOperator.
base_file_name(t) ==
    CASE t = "run_date_etl" -> "date"
      [] t = "run_film_etl" -> "film"
      [] t = "run_store_etl" -> "store"
      [] t = "run_customer_etl" -> "customer"
      [] t = "run_rental_etl" -> "rental"

\* The dependency line with customer_etl_task left out of the list.
UpstreamWithoutCustomer(t) ==
    IF t = Fact THEN Dims \ {"run_customer_etl"} ELSE {}

\* [date, film, store, customer] >> rental
Upstream(t) == IF t = Fact THEN Dims ELSE {}

\* The trigger rule all_done: every upstream task instance has finished,
\* whatever its outcome.
TriggerRuleAllDone(t) ==
    \A u \in Upstream(t) : state[u] \in {"success", "failed", "upstream_failed"}

\* The default trigger rule of an operator, all_success: every upstream
\* task instance has succeeded.
TriggerRuleMet(t) == \A u \in Upstream(t) : state[u] = "success"

\* An upstream task instance has failed or was itself not run: the task is
\* never run in this DAG run.
UpstreamHasFailed(t) ==
    \E u \in Upstream(t) : state[u] \in {"failed", "upstream_failed"}

\* The comparison off by one: a try is granted after the budget is spent.
EligibleForRetryOffByOne(n) == n <= Retries + 1

\* A failed try is retried while try_number <= retries.
EligibleForRetry(n) == n <= Retries

----------------------------------------------------------------------------
(* etl_tasks: dag.py lines 14-56. *)

\* f"/opt/airflow/shared/{base_file_name}_raw.parquet"
raw_path(t) == <<"/opt/airflow/shared", base_file_name(t), "raw.parquet">>

\* f"/opt/airflow/shared/{base_file_name}_transformed.parquet"
transformed_path(t) ==
    <<"/opt/airflow/shared", base_file_name(t), "transformed.parquet">>

\* The try block with load_data called before transform_data.
TryBlockLoadFirst == <<"extract_data", "to_parquet_raw", "xcom_push_raw",
                       "load_data", "transform_data",
                       "to_parquet_transformed", "xcom_push_transformed">>

\* The try block with both paths published after load_data.
TryBlockPublishLate == <<"extract_data", "to_parquet_raw", "transform_data",
                         "to_parquet_transformed", "load_data",
                         "xcom_push_raw", "xcom_push_transformed">>

\* The statements of the try block, in program order.
TryBlock == <<"extract_data", "to_parquet_raw", "xcom_push_raw",
              "transform_data", "to_parquet_transformed",
              "xcom_push_transformed", "load_data">>

\* The statements of the finally block, in program order.
FinallyBlock == <<"remove_raw", "remove_transformed",
                  "dispose_source", "dispose_warehouse">>

InSeq(s, x) == \E i \in 1..Len(s) : s[i] = x

IndexOf(s, x) == CHOOSE i \in 1..Len(s) : s[i] = x

\* The statement control reaches when statement s completes normally.
Succ(s) ==
    IF s = "etl_class" THEN TryBlock[1]
    ELSE IF InSeq(TryBlock, s)
    THEN IF IndexOf(TryBlock, s) < Len(TryBlock)
         THEN TryBlock[IndexOf(TryBlock, s) + 1]
         ELSE FinallyBlock[1]
    ELSE IF s = "except" THEN FinallyBlock[1]
    ELSE IF IndexOf(FinallyBlock, s) < Len(FinallyBlock)
         THEN FinallyBlock[IndexOf(FinallyBlock, s) + 1]
         ELSE "exit"

\* remove_file_safely without its except clause.
SwallowedNever(s) == FALSE

\* Whether an exception raised by statement s is caught where it is raised:
\* remove_file_safely catches every Exception of os.path.exists/os.remove;
\* nothing else in etl_tasks is guarded.
Swallowed(s) == s \in {"remove_raw", "remove_transformed"}

\* The statement control reaches when statement s raises, had the
\* constructor call been inside the try statement.
OnRaiseConstructorInTry(s) ==
    IF s = "etl_class" \/ InSeq(TryBlock, s) THEN "except"
    ELSE IF Swallowed(s) THEN Succ(s)
    ELSE "exit"

\* The statement control reaches when statement s raises.
OnRaise(s) ==
    IF s = "etl_class" THEN "exit"
    ELSE IF InSeq(TryBlock, s) THEN "except"
    ELSE IF Swallowed(s) THEN Succ(s)
    ELSE "exit"

\* The exception in flight after statement s raised while e was in flight.
\* An exception raised inside the finally block replaces the one in flight.
InFlight(s, e) == IF Swallowed(s) THEN e ELSE s

Running(t) == state[t] = "running"

Active == {t \in Tasks : Running(t)}

CanFail == faults < MaxFaults

Call(t, s, ok) == Append(trace[t], [op |-> s, ok |-> ok])

\* Statement s of task t completes normally.
Return(t, s) ==
    /\ pc' = [pc EXCEPT ![t] = Succ(s)]
    /\ trace' = [trace EXCEPT ![t] = Call(t, s, TRUE)]
    /\ UNCHANGED <<exc, orig, faults>>

\* Statement s of task t raises.
Raise(t, s) ==
    /\ CanFail
    /\ faults' = faults + 1
    /\ pc' = [pc EXCEPT ![t] = OnRaise(s)]
    /\ trace' = [trace EXCEPT ![t] = Call(t, s, FALSE)]
    /\ exc' = [exc EXCEPT ![t] = InFlight(s, exc[t])]
    /\ orig' = [orig EXCEPT ![t] =
                  IF InSeq(TryBlock, s) \/ s = "etl_class" THEN s ELSE orig[t]]

At(t, s) == Running(t) /\ pc[t] = s

\* The scheduler queues a task instance whose trigger rule is met (a first
\* try, or a retry) and a worker starts it: XCom of the task instance is
\* cleared and etl_tasks is entered.
Schedule(t) ==
    /\ state[t] \in {"none", "up_for_retry"}
    /\ TriggerRuleMet(t)
    /\ Cardinality(Active) < MaxActive
    /\ state' = [state EXCEPT ![t] = "running"]
    /\ try_number' = [try_number EXCEPT ![t] = @ + 1]
    /\ pc' = [pc EXCEPT ![t] = "etl_class"]
    /\ exc' = [exc EXCEPT ![t] = "none"]
    /\ orig' = [orig EXCEPT ![t] = "none"]
    /\ source_engine' = [source_engine EXCEPT ![t] = "none"]
    /\ warehouse_engine' = [warehouse_engine EXCEPT ![t] = "none"]
    /\ xcom' = [xcom EXCEPT ![t] = <<>>]
    /\ trace' = [trace EXCEPT ![t] = <<>>]
    /\ UNCHANGED <<dateVars, auxVars, files, loaded, faults>>

\* The scheduler marks a task whose upstream failed: it is never run.
MarkUpstreamFailed(t) ==
    /\ state[t] = "none"
    /\ UpstreamHasFailed(t)
    /\ state' = [state EXCEPT ![t] = "upstream_failed"]
    /\ UNCHANGED <<dateVars, auxVars, try_number, pc, exc, orig, source_engine,
                   warehouse_engine, files, xcom, trace, loaded, faults>>

\* etl = etl_class(): both engines are created, or the constructor raises
\* (create_db_engine re-raises a failed connection) outside the try block.
Construct(t) ==
    /\ At(t, "etl_class")
    /\ \/ /\ Return(t, "etl_class")
          /\ source_engine' = [source_engine EXCEPT ![t] = "open"]
          /\ warehouse_engine' = [warehouse_engine EXCEPT ![t] = "open"]
       \/ /\ Raise(t, "etl_class")
          /\ \E s \in {"none", "open"} :
                source_engine' = [source_engine EXCEPT ![t] = s]
          /\ UNCHANGED warehouse_engine
    /\ UNCHANGED <<dateVars, auxVars, state, try_number, files, xcom, loaded>>

\* df_raw = etl.extract_data()
Extract(t) ==
    /\ At(t, "extract_data")
    /\ Return(t, "extract_data") \/ Raise(t, "extract_data")
    /\ UNCHANGED <<dateVars, auxVars, state, try_number, source_engine, warehouse_engine,
                   files, xcom, loaded>>

\* df.to_parquet(path, index=False): the file is written; a failed write
\* may leave a file behind or not.
ToParquet(t, s, path) ==
    /\ At(t, s)
    /\ \/ /\ Return(t, s)
          /\ files' = files \cup {path}
       \/ /\ Raise(t, s)
          /\ \E partial \in BOOLEAN :
                files' = IF partial THEN files \cup {path} ELSE files
    /\ UNCHANGED <<dateVars, auxVars, state, try_number, source_engine, warehouse_engine,
                   xcom, loaded>>

StageRaw(t) == ToParquet(t, "to_parquet_raw", raw_path(t))

StageTransformed(t) ==
    ToParquet(t, "to_parquet_transformed", transformed_path(t))

\* ti.xcom_push(key=..., value=path)
XComPush(t, s, key, path) ==
    /\ At(t, s)
    /\ \/ /\ Return(t, s)
          /\ xcom' = [xcom EXCEPT ![t] = Append(@, [key |-> key, value |-> path])]
       \/ /\ Raise(t, s)
          /\ UNCHANGED xcom
    /\ UNCHANGED <<dateVars, auxVars, state, try_number, source_engine, warehouse_engine,
                   files, loaded>>

PushRaw(t) == XComPush(t, "xcom_push_raw", "raw_data_path", raw_path(t))

\* The second xcom_push with the key of the first.
PushTransformedRawKey(t) ==
    XComPush(t, "xcom_push_transformed", "raw_data_path",
             transformed_path(t))

PushTransformed(t) ==
    XComPush(t, "xcom_push_transformed", "transformed_data_path",
             transformed_path(t))

\* df_transformed = etl.transform_data(df_raw)
Transform(t) ==
    /\ At(t, "transform_data")
    /\ Return(t, "transform_data") \/ Raise(t, "transform_data")
    /\ UNCHANGED <<dateVars, auxVars, state, try_number, source_engine, warehouse_engine,
                   files, xcom, loaded>>

\* etl.load_data(df_transformed, table_name=etl.get_table_name())
Load(t) ==
    /\ At(t, "load_data")
    /\ \/ /\ Return(t, "load_data")
          /\ loaded' = [loaded EXCEPT ![t] = @ + 1]
       \/ /\ Raise(t, "load_data")
          /\ UNCHANGED loaded
    /\ UNCHANGED <<dateVars, auxVars, state, try_number, source_engine, warehouse_engine,
                   files, xcom>>

\* except Exception as e: logger.error(...); raise
Except(t) ==
    /\ At(t, "except")
    /\ Return(t, "except")
    /\ UNCHANGED <<dateVars, auxVars, state, try_number, source_engine, warehouse_engine,
                   files, xcom, loaded>>

\* The staging store after remove_file_safely(file_path) returns: the file
\* is removed when os.path.exists finds it and os.remove succeeds; when
\* os.remove raises (oserror) the except clause logs a warning and the file
\* stays; a path that holds no file is left alone.
remove_file_safely(store, file_path, oserror) ==
    IF file_path \in store
    THEN IF oserror THEN store ELSE store \ {file_path}
    ELSE store

\* remove_file_safely(path): the file is removed when it exists; a failure
\* of os.remove is logged and not raised, and leaves the file.
RemoveFileSafely(t, s, path) ==
    /\ At(t, s)
    /\ \/ /\ Return(t, s)
          /\ files' = remove_file_safely(files, path, FALSE)
       \/ /\ path \in files
          /\ Raise(t, s)
          /\ files' = remove_file_safely(files, path, TRUE)
    /\ UNCHANGED <<dateVars, auxVars, state, try_number, source_engine, warehouse_engine,
                   xcom, loaded>>

\* remove_file_safely called at line 52 with the transformed path.
RemoveRawWrongPath(t) ==
    RemoveFileSafely(t, "remove_raw", transformed_path(t))

RemoveRaw(t) == RemoveFileSafely(t, "remove_raw", raw_path(t))

RemoveTransformed(t) ==
    RemoveFileSafely(t, "remove_transformed", transformed_path(t))

\* etl.source_engine.dispose()
DisposeSource(t) ==
    /\ At(t, "dispose_source")
    /\ \/ /\ Return(t, "dispose_source")
          /\ source_engine' = [source_engine EXCEPT ![t] = "disposed"]
       \/ /\ Raise(t, "dispose_source")
          /\ UNCHANGED source_engine
    /\ UNCHANGED <<dateVars, auxVars, state, try_number, warehouse_engine, files, xcom,
                   loaded>>

\* etl.warehouse_engine.dispose()
DisposeWarehouse(t) ==
    /\ At(t, "dispose_warehouse")
    /\ \/ /\ Return(t, "dispose_warehouse")
          /\ warehouse_engine' = [warehouse_engine EXCEPT ![t] = "disposed"]
       \/ /\ Raise(t, "dispose_warehouse")
          /\ UNCHANGED warehouse_engine
    /\ UNCHANGED <<dateVars, auxVars, state, try_number, source_engine, files, xcom,
                   loaded>>

\* The state Airflow gives a task instance whose callable returned (e is
\* "none") or raised e, on try n.
Outcome(e, n) ==
    IF e = "none" THEN "success"
    ELSE IF EligibleForRetry(n) THEN "up_for_retry"
    ELSE "failed"

\* etl_tasks returns control to Airflow, normally or with the exception in
\* flight; Airflow records the outcome of the try, and the locals of the
\* call (the etl object, its engines, the exception) are gone.
Finish(t) ==
    /\ At(t, "exit")
    /\ state' = [state EXCEPT ![t] = Outcome(exc[t], try_number[t])]
    /\ pc' = [pc EXCEPT ![t] = "idle"]
    /\ exc' = [exc EXCEPT ![t] = "none"]
    /\ orig' = [orig EXCEPT ![t] = "none"]
    /\ source_engine' = [source_engine EXCEPT ![t] = "none"]
    /\ warehouse_engine' = [warehouse_engine EXCEPT ![t] = "none"]
    /\ trace' = [trace EXCEPT ![t] = <<>>]
    /\ UNCHANGED <<dateVars, auxVars, try_number, files, xcom, loaded, faults>>

----------------------------------------------------------------------------
(* DateETL: etl/dim_date_logic.py. *)

\* Rows of the raw frame in one input.
MaxRows == 5

\* The rental_date values the source rows are drawn from: two on one
\* calendar date, two dates of one ISO week in different months, and a
\* 1 January that falls in the last ISO week of the year before.
RentalDates ==
    { [y |-> 2005, m |-> 5, d |-> 31, h |-> 8],
      [y |-> 2005, m |-> 5, d |-> 31, h |-> 22],
      [y |-> 2005, m |-> 6, d |-> 1, h |-> 0],
      [y |-> 2005, m |-> 8, d |-> 1, h |-> 15],
      [y |-> 2006, m |-> 1, d |-> 1, h |-> 9],
      [y |-> 2006, m |-> 2, d |-> 14, h |-> 15] }

IsLeap(y) == (y % 4 = 0 /\ y % 100 # 0) \/ y % 400 = 0

DaysInMonth(y, m) ==
    IF m = 2 THEN (IF IsLeap(y) THEN 29 ELSE 28)
    ELSE IF m \in {4, 6, 9, 11} THEN 30 ELSE 31

RECURSIVE DaysBefore(_, _)
DaysBefore(y, m) ==
    IF m = 1 THEN 0 ELSE DaysBefore(y, m - 1) + DaysInMonth(y, m - 1)

DayOfYear(v) == DaysBefore(v.y, v.m) + v.d

\* Day of the week of 1 January of year y, 0 = Sunday.
Jan1(y) ==
    (1 + 5 * ((y - 1) % 4) + 4 * ((y - 1) % 100) + 6 * ((y - 1) % 400)) % 7

\* ISO day of the week, 1 = Monday .. 7 = Sunday.
IsoWeekday(v) ==
    LET n == (Jan1(v.y) + DayOfYear(v) - 1) % 7 IN IF n = 0 THEN 7 ELSE n

WeeksInYear(y) ==
    IF Jan1(y) = 4 \/ (IsLeap(y) /\ Jan1(y) = 3) THEN 53 ELSE 52

\* Series.dt.isocalendar().week
IsoWeek(v) ==
    LET w == (DayOfYear(v) - IsoWeekday(v) + 10) \div 7
    IN  IF w < 1 THEN WeeksInYear(v.y - 1)
        ELSE IF w > WeeksInYear(v.y) THEN 1
        ELSE w

\* Series.dt.month
Month(v) == v.m

\* pd.to_datetime of one value: a datetime is kept, a date becomes the
\* datetime at midnight of that date.
to_datetime(v) ==
    IF "h" \in DOMAIN v THEN v ELSE [y |-> v.y, m |-> v.m, d |-> v.d, h |-> 0]

\* Series.dt.date of one value: the time of day is dropped.
dt_date(v) == [y |-> v.y, m |-> v.m, d |-> v.d]

\* A DataFrame: its column labels in order, and its rows in order, each a
\* function from the column labels to values.
Frame(cols, rows) == [columns |-> cols, rows |-> rows]

EmptyFrame == Frame(<<>>, <<>>)

\* df[c] = values: column c is replaced, or added as the last column.
SetColumn(df, c, values) ==
    Frame(IF InSeq(df.columns, c) THEN df.columns ELSE Append(df.columns, c),
          [i \in 1..Len(df.rows) |->
              [k \in DOMAIN df.rows[i] \cup {c} |->
                  IF k = c THEN values[i] ELSE df.rows[i][k]]])

\* The rows i of rows, from row i on, with keep[i], in their order.
RECURSIVE SelectRows(_, _, _)
SelectRows(rows, keep, i) ==
    IF i > Len(rows) THEN <<>>
    ELSE IF keep[i] THEN <<rows[i]>> \o SelectRows(rows, keep, i + 1)
    ELSE SelectRows(rows, keep, i + 1)

\* DataFrame.duplicated(subset=c, keep=False): every row whose value in
\* column c occurs more than once is a duplicate.
DuplicatedKeepFalse(df, c) ==
    [i \in 1..Len(df.rows) |->
        \E j \in (1..Len(df.rows)) \ {i} : df.rows[j][c] = df.rows[i][c]]

\* DataFrame.duplicated(subset=c, keep='last'): a row is a duplicate when a
\* later row has the same value in column c.
DuplicatedKeepLast(df, c) ==
    [i \in 1..Len(df.rows) |->
        \E j \in (i + 1)..Len(df.rows) : df.rows[j][c] = df.rows[i][c]]

\* DataFrame.duplicated(subset=c), keep='first': a row is a duplicate when
\* an earlier row has the same value in column c.
Duplicated(df, c) ==
    [i \in 1..Len(df.rows) |->
        \E j \in 1..(i - 1) : df.rows[j][c] = df.rows[i][c]]

\* DataFrame.drop_duplicates(subset=c): a new frame without the duplicates,
\* the rows kept in their order.
drop_duplicates(df, c) ==
    LET dup == Duplicated(df, c)
    IN  Frame(df.columns,
              SelectRows(df.rows, [i \in 1..Len(df.rows) |-> ~dup[i]], 1))

\* range(1, len(df) + 1)
KeyRange(n) == [i \in 1..n |-> i]

\* DataFrame.rename(columns={old: new}) for one label.
RenameColumn(df, old, new) ==
    LET lab(k) == IF k = old THEN new ELSE k
        src(k) == IF k = new THEN old ELSE k
    IN  Frame([i \in 1..Len(df.columns) |-> lab(df.columns[i])],
              [i \in 1..Len(df.rows) |->
                  [k \in {lab(x) : x \in DOMAIN df.rows[i]} |->
                      df.rows[i][src(k)]]])

\* Lines 34-39 of transform_data: the statements that assign columns of
\* the frame the caller passed, in place.
NormalizeInPlace(df) ==
    LET d1 == SetColumn(df, "rental_date",
                  [i \in 1..Len(df.rows) |-> to_datetime(df.rows[i].rental_date)])
        d2 == SetColumn(d1, "week",
                  [i \in 1..Len(d1.rows) |-> IsoWeek(d1.rows[i].rental_date)])
        d3 == SetColumn(d2, "rental_month",
                  [i \in 1..Len(d2.rows) |-> Month(d2.rows[i].rental_date)])
    IN  SetColumn(d3, "rental_date",
                  [i \in 1..Len(d3.rows) |-> dt_date(d3.rows[i].rental_date)])

\* DateETL.transform_data(df): arg is the caller's frame after the call,
\* result the frame returned.
transform_data(df) ==
    LET d4 == NormalizeInPlace(df)
        d5 == drop_duplicates(d4, "rental_date")
        d6 == SetColumn(d5, "date_key", KeyRange(Len(d5.rows)))
        d7 == RenameColumn(RenameColumn(d6, "rental_date", "full_date"),
                           "week", "rental_week")
    IN  [arg |-> d4, result |-> d7]

\* DateETL.extract_data(): a frame with the one column rental_date.
RawFrames ==
    { Frame(<<"rental_date">>,
            [i \in 1..Len(s) |-> [rental_date |-> s[i]]]) :
        s \in UNION { [1..n -> RentalDates] : n \in 0..MaxRows } }

\* df_raw = etl.extract_data(), for the date task: the rows of the source.
DateExtract ==
    /\ date_pc = "start"
    /\ df_raw' = extracted
    /\ date_pc' = "extracted"
    /\ UNCHANGED <<dagVars, auxVars, extracted, df_transformed>>

\* df_transformed = etl.transform_data(df_raw), for the date task: the
\* frame passed is the caller's own object, so what the call assigns in
\* place is seen in df_raw.
DateTransform ==
    /\ date_pc = "extracted"
    /\ df_transformed' = transform_data(df_raw).result
    /\ df_raw' = transform_data(df_raw).arg
    /\ date_pc' = "transformed"
    /\ UNCHANGED <<dagVars, auxVars, extracted>>

----------------------------------------------------------------------------
(* Two runs of the DAG: the staging directory /opt/airflow/shared is one
   directory for every run, and raw_path and transformed_path are computed
   from base_file_name alone (dag.py lines 25-26).  A task execution is a
   pair <<run, task>>; each one steps through the statements of etl_tasks,
   of which only to_parquet and remove_file_safely touch the directory. *)

MaxRuns == 2

RunTasks == {"run_date_etl", "run_film_etl"}

Executions == (1..MaxRuns) \X RunTasks

\* The paths etl_tasks computes for an execution: the run is not part of them.
exec_raw_path(e) == raw_path(e[2])

exec_transformed_path(e) == transformed_path(e[2])

StagedPaths ==
    {exec_raw_path(e) : e \in Executions}
        \cup {exec_transformed_path(e) : e \in Executions}

\* The file a statement of etl_tasks writes or removes.
PathOf(e, s) ==
    IF s \in {"to_parquet_raw", "remove_raw"}
    THEN exec_raw_path(e)
    ELSE exec_transformed_path(e)

RunActive == {e \in Executions : run_pc[e] \notin {"idle", "exit"}}

\* The executor starts an execution of any run while a slot is free.
RunStart(e) ==
    /\ run_pc[e] = "idle"
    /\ Cardinality(RunActive) < MaxActive
    /\ run_pc' = [run_pc EXCEPT ![e] = "etl_class"]
    /\ UNCHANGED <<dagVars, dateVars, configVars, writer>>

\* A statement that leaves the staging directory alone completes.
RunStep(e) ==
    /\ run_pc[e] \in {"etl_class", "extract_data", "xcom_push_raw",
                      "transform_data", "xcom_push_transformed", "load_data",
                      "dispose_source", "dispose_warehouse"}
    /\ run_pc' = [run_pc EXCEPT ![e] = Succ(run_pc[e])]
    /\ UNCHANGED <<dagVars, dateVars, configVars, writer>>

\* df.to_parquet(path, index=False): the file at the path is created or
\* replaced by this execution's frame.
RunToParquet(e) ==
    /\ run_pc[e] \in {"to_parquet_raw", "to_parquet_transformed"}
    /\ files' = files \cup {PathOf(e, run_pc[e])}
    /\ writer' = [writer EXCEPT ![PathOf(e, run_pc[e])] = e]
    /\ run_pc' = [run_pc EXCEPT ![e] = Succ(run_pc[e])]
    /\ UNCHANGED <<dateVars, configVars, state, try_number, pc, exc, orig,
                   source_engine, warehouse_engine, xcom, trace, loaded,
                   faults>>

\* remove_file_safely(path) in the finally block of an execution.
RunRemoveFileSafely(e) ==
    /\ run_pc[e] \in {"remove_raw", "remove_transformed"}
    /\ \E oserror \in BOOLEAN :
          /\ files' = remove_file_safely(files, PathOf(e, run_pc[e]), oserror)
          /\ run_pc' = [run_pc EXCEPT ![e] =
                 IF oserror /\ PathOf(e, run_pc[e]) \in files
                 THEN OnRaise(run_pc[e])
                 ELSE Succ(run_pc[e])]
    /\ writer' = [p \in StagedPaths |->
                    IF p \in files' THEN writer[p] ELSE <<>>]
    /\ UNCHANGED <<dateVars, configVars, state, try_number, pc, exc, orig,
                   source_engine, warehouse_engine, xcom, trace, loaded,
                   faults>>

----------------------------------------------------------------------------
(* get_config: helpers.py lines 17-51. *)

\* The database names get_config is called with; only the first two are
\* known to it.
DbNames == {"sakila", "sakila_dw", "", "Sakila", "sakila_dw ", "warehouse",
            "mysql"}

Hosts == {"mysql_source", "mysql_warehouse"}

Ports == {3306, 3307}

\* The attributes of config.Config that get_config reads.
Configs ==
    [MYSQL_SOURCE_USER : {"root"},
     MYSQL_SOURCE_ROOT_PASSWORD : {"source_secret"},
     MYSQL_SOURCE_HOST : Hosts,
     MYSQL_SOURCE_PORT : Ports,
     MYSQL_SOURCE_DATABASE : {"sakila"},
     MYSQL_WAREHOUSE_USER : {"root"},
     MYSQL_WAREHOUSE_ROOT_PASSWORD : {"warehouse_secret"},
     MYSQL_WAREHOUSE_HOST : Hosts,
     MYSQL_WAREHOUSE_PORT : Ports,
     MYSQL_WAREHOUSE_DATABASE : {"sakila_dw"}]

source_db_config ==
    [user |-> Config.MYSQL_SOURCE_USER,
     password |-> Config.MYSQL_SOURCE_ROOT_PASSWORD,
     host |-> Config.MYSQL_SOURCE_HOST,
     port |-> Config.MYSQL_SOURCE_PORT,
     database |-> Config.MYSQL_SOURCE_DATABASE]

warehouse_db_config ==
    [user |-> Config.MYSQL_WAREHOUSE_USER,
     password |-> Config.MYSQL_WAREHOUSE_ROOT_PASSWORD,
     host |-> Config.MYSQL_WAREHOUSE_HOST,
     port |-> Config.MYSQL_WAREHOUSE_PORT,
     database |-> Config.MYSQL_WAREHOUSE_DATABASE]

\* The value bound to the parameter db_name: 'sakila' when the argument
\* is omitted.
BindDbName(args) == IF args = <<>> THEN "sakila" ELSE args[1]

\* get_config with an else branch that falls back to the source database.
get_config_fallback(name) ==
    IF name = "sakila_dw"
    THEN [raised |-> "none", value |-> {warehouse_db_config}]
    ELSE [raised |-> "none", value |-> {source_db_config}]

\* The outcome of get_config(name): the dictionary returned, or the
\* exception raised with nothing returned.
get_config(name) ==
    IF name = "sakila"
    THEN [raised |-> "none", value |-> {source_db_config}]
    ELSE IF name = "sakila_dw"
    THEN [raised |-> "none", value |-> {warehouse_db_config}]
    ELSE [raised |-> "ValueError", value |-> {}]

NotCalled == [raised |-> "not_called", value |-> {}]

\* One call of get_config with the arguments drawn at the start.
GetConfig ==
    /\ returned = NotCalled
    /\ returned' = get_config(BindDbName(db_name))
    /\ UNCHANGED <<dagVars, dateVars, runVars, Config, db_name>>

----------------------------------------------------------------------------

InitDag ==
    /\ state = [t \in Tasks |-> "none"]
    /\ try_number = [t \in Tasks |-> 0]
    /\ pc = [t \in Tasks |-> "idle"]
    /\ exc = [t \in Tasks |-> "none"]
    /\ orig = [t \in Tasks |-> "none"]
    /\ source_engine = [t \in Tasks |-> "none"]
    /\ warehouse_engine = [t \in Tasks |-> "none"]
    /\ files = {}
    /\ xcom = [t \in Tasks |-> <<>>]
    /\ trace = [t \in Tasks |-> <<>>]
    /\ loaded = [t \in Tasks |-> 0]
    /\ faults = 0

NoDate ==
    /\ extracted = EmptyFrame
    /\ df_raw = EmptyFrame
    /\ df_transformed = EmptyFrame
    /\ date_pc = "idle"

NoRuns ==
    /\ run_pc = [e \in Executions |-> "idle"]
    /\ writer = [p \in StagedPaths |-> <<>>]

NoConfig ==
    /\ Config \in Configs
    /\ Config.MYSQL_SOURCE_HOST = "mysql_source"
    /\ Config.MYSQL_SOURCE_PORT = 3306
    /\ Config.MYSQL_WAREHOUSE_HOST = "mysql_warehouse"
    /\ Config.MYSQL_WAREHOUSE_PORT = 3306
    /\ db_name = <<>>
    /\ returned = NotCalled

Init == InitDag /\ NoDate /\ NoRuns /\ NoConfig

InitDate ==
    /\ InitDag
    /\ NoRuns
    /\ NoConfig
    /\ extracted \in RawFrames
    /\ df_raw = EmptyFrame
    /\ df_transformed = EmptyFrame
    /\ date_pc = "start"

Next ==
    \E t \in Tasks :
        \/ Schedule(t)
        \/ MarkUpstreamFailed(t)
        \/ Construct(t)
        \/ Extract(t)
        \/ StageRaw(t)
        \/ PushRaw(t)
        \/ Transform(t)
        \/ StageTransformed(t)
        \/ PushTransformed(t)
        \/ Load(t)
        \/ Except(t)
        \/ RemoveRaw(t)
        \/ RemoveTransformed(t)
        \/ DisposeSource(t)
        \/ DisposeWarehouse(t)
        \/ Finish(t)

Spec == Init /\ [][Next]_vars

NextDate == DateExtract \/ DateTransform

SpecDate == InitDate /\ [][NextDate]_vars

NextRuns ==
    \E e \in Executions :
        \/ RunStart(e)
        \/ RunStep(e)
        \/ RunToParquet(e)
        \/ RunRemoveFileSafely(e)

SpecRuns == Init /\ [][NextRuns]_vars

InitConfig ==
    /\ InitDag
    /\ NoDate
    /\ NoRuns
    /\ Config \in Configs
    /\ db_name \in {<<>>} \cup {<<n>> : n \in DbNames}
    /\ returned = NotCalled

SpecConfig == InitConfig /\ [][GetConfig]_vars

----------------------------------------------------------------------------
(* Properties. *)

Started(t) == try_number[t] > 0

Finished(t) == state[t] \in {"success", "failed", "upstream_failed"}

RunDone == \A t \in Tasks : Finished(t)

\* The tasks the dependency line of the DAG puts upstream of a task.
DeclaredUpstream(t) ==
    IF t = "run_rental_etl"
    THEN {"run_date_etl", "run_film_etl", "run_store_etl", "run_customer_etl"}
    ELSE {}

\* C1: a task has started an attempt only if every task of its dependency
\* set has succeeded, its load completed; so run_rental_etl never starts
\* before run_date_etl, run_film_etl, run_store_etl and run_customer_etl
\* have all succeeded.
C1_StartsAfterUpstreamSucceeded ==
    \A t \in Tasks :
        Started(t) =>
            \A u \in DeclaredUpstream(t) : state[u] = "success" /\ loaded[u] >= 1

\* The fact task is in its first attempt, started after the four loads.
C1_Witness ==
    /\ state[Fact] = "running"
    /\ pc[Fact] = "load_data"
    /\ \A d \in Dims : state[d] = "success"

\* A dimension task has failed on every attempt of its retry budget.
FailedAllTries(d) == state[d] = "failed" /\ try_number[d] = Retries + 1

\* C3: once a dimension task has failed on every attempt, the fact task is
\* not attempted and has not loaded; the run is never stuck before every
\* task has an outcome; and at the end of the run every other dimension
\* task has succeeded unless it failed by itself, and the fact task is
\* marked not run (Airflow's upstream_failed), never succeeded.
C3_FailureIsolation ==
    \A d \in Dims :
        FailedAllTries(d) =>
            /\ ~Started(Fact)
            /\ loaded[Fact] = 0
            /\ state[Fact] \in {"none", "upstream_failed"}
            /\ RunDone \/ ENABLED Next
            /\ RunDone =>
                  /\ state[Fact] = "upstream_failed"
                  /\ \A s \in Dims \ {d} : state[s] \in {"success", "failed"}
                  /\ \A s \in Dims \ {d} :
                        state[s] = "success" \/ try_number[s] = Retries + 1

\* One dimension failed both attempts, the three others succeeded, and the
\* fact task was marked not run.
C3_Witness ==
    /\ \E d \in Dims :
          /\ FailedAllTries(d)
          /\ \A s \in Dims \ {d} : state[s] = "success" /\ loaded[s] = 1
    /\ state[Fact] = "upstream_failed"
    /\ ~Started(Fact)

----------------------------------------------------------------------------
(* The calls of the attempt in flight. *)

Called(t, op) == \E i \in 1..Len(trace[t]) : trace[t][i].op = op

Ok(t, op) == \E i \in 1..Len(trace[t]) : trace[t][i] = [op |-> op, ok |-> TRUE]

Failed(t, op) ==
    \E i \in 1..Len(trace[t]) : trace[t][i] = [op |-> op, ok |-> FALSE]

Times(t, op) == Cardinality({i \in 1..Len(trace[t]) : trace[t][i].op = op})

\* Entry i of the trace of t is a call of op, preceded by a call of before
\* that returned.
After(t, i, before) ==
    \E j \in 1..(i - 1) : trace[t][j] = [op |-> before, ok |-> TRUE]

OnBus(t, key, path) ==
    \E i \in 1..Len(xcom[t]) : xcom[t][i] = [key |-> key, value |-> path]

PhaseCalls == {"extract_data", "transform_data", "load_data"}

CleanupCalls ==
    {"remove_raw", "remove_transformed", "dispose_source", "dispose_warehouse"}

TryBlockCalls ==
    {"extract_data", "to_parquet_raw", "xcom_push_raw", "transform_data",
     "to_parquet_transformed", "xcom_push_transformed", "load_data"}

\* etl_tasks of task t has run to its end: it is about to return, or to
\* propagate the exception in flight.
AtExit(t) == state[t] = "running" /\ pc[t] = "exit"

\* C2 (as stated): when an attempt that acquired its connections has run
\* to its end, neither the raw nor the transformed file of the task exists
\* and both engines are disposed.
C2_CleanupInvariant ==
    \A t \in Tasks :
        AtExit(t) /\ Ok(t, "etl_class") =>
            /\ raw_path(t) \notin files
            /\ transformed_path(t) \notin files
            /\ source_engine[t] = "disposed"
            /\ warehouse_engine[t] = "disposed"

\* C4 (as stated): load_data completes at most once per task in a run, and
\* exactly once for a task that succeeded.
C4_LoadExactlyOnce ==
    \A t \in Tasks :
        /\ loaded[t] <= 1
        /\ state[t] = "success" => loaded[t] = 1

\* C5 (as stated): when the try block raised E and a cleanup step then
\* failed, all four cleanup steps were still run and the exception the
\* attempt ends with is E.
C5_CleanupNeverMasks ==
    \A t \in Tasks :
        (/\ AtExit(t)
         /\ orig[t] \in TryBlockCalls
         /\ \E c \in CleanupCalls : Failed(t, c)) =>
            /\ exc[t] = orig[t]
            /\ \A c \in CleanupCalls : Called(t, c)

\* The phase calls of the attempt in flight are in order.
C6_Order(t) ==
    /\ \A op \in PhaseCalls : Times(t, op) <= 1
    /\ \A i \in 1..Len(trace[t]) :
          /\ trace[t][i].op = "transform_data" => After(t, i, "extract_data")
          /\ trace[t][i].op = "load_data" =>
                /\ After(t, i, "extract_data")
                /\ After(t, i, "transform_data")
    /\ Failed(t, "extract_data") \/ Failed(t, "transform_data") =>
          ~Called(t, "load_data")

\* C6: in every attempt transform_data is called only after extract_data
\* returned and load_data only after transform_data returned, each at most
\* once; after a failed extract or transform load_data is not called; and
\* the warehouse table of a task changes only by the one load_data call of
\* an attempt whose extract and transform returned.
C6_PhasesInOrder ==
    /\ [](\A t \in Tasks : C6_Order(t))
    /\ [][\A t \in Tasks :
            loaded'[t] # loaded[t] =>
                /\ loaded'[t] = loaded[t] + 1
                /\ pc[t] = "load_data"
                /\ Ok(t, "extract_data") /\ Ok(t, "transform_data")
                /\ ~Called(t, "load_data")
                /\ ~Failed(t, "extract_data") /\ ~Failed(t, "transform_data")]_vars

\* An attempt whose transform failed has ended with no load.
C6_Witness ==
    \E t \in Tasks :
        /\ AtExit(t)
        /\ Ok(t, "extract_data")
        /\ Failed(t, "transform_data")
        /\ ~Called(t, "load_data")
        /\ loaded[t] = 0

\* The try of task t ends in this step and Airflow records its outcome.
TryEnds(t) == AtExit(t) /\ state'[t] # "running"

\* C7 (as stated): an attempt that ends with a transform error makes the
\* task failed at once, and no task has more than retries + 1 attempts.
C7_TransformErrorNotRetried ==
    /\ [](\A t \in Tasks : try_number[t] <= 2)
    /\ [][\A t \in Tasks :
            TryEnds(t) /\ exc[t] = "transform_data" => state'[t] = "failed"]_vars

\* C7 (amended): an attempt that ends with an exception, whatever raised
\* it, is retried when it was the first attempt and makes the task failed
\* when it was the second; a retry enters etl_tasks from its first
\* statement with nothing kept from the attempt before; no task has more
\* than 2 attempts.
C7_EveryErrorRetriedOnce ==
    /\ [](\A t \in Tasks : try_number[t] <= 2)
    /\ [][\A t \in Tasks :
            TryEnds(t) =>
                state'[t] = IF exc[t] = "none" THEN "success"
                            ELSE IF try_number[t] = 1 THEN "up_for_retry"
                            ELSE "failed"]_vars
    /\ [][\A t \in Tasks :
            state[t] = "up_for_retry" /\ state'[t] # "up_for_retry" =>
                /\ state'[t] = "running"
                /\ try_number'[t] = 2
                /\ pc'[t] = "etl_class"
                /\ trace'[t] = <<>>
                /\ xcom'[t] = <<>>
                /\ source_engine'[t] = "none" /\ warehouse_engine'[t] = "none"]_vars

\* A second attempt is running the transform again: the first attempt was
\* retried, and this one ends with a transform error.
C7_Witness ==
    \E t \in Tasks :
        /\ try_number[t] = 2
        /\ AtExit(t)
        /\ exc[t] = "transform_data"

\* C10: in every attempt, transform_data is called only right after
\* raw_data_path was published, which is done right after the raw file was
\* staged; load_data only right after transformed_data_path was published,
\* right after the transformed file was staged; and what was published
\* stays on the bus when a later phase fails.
C10_PublishedBeforeNextPhase ==
    \A t \in Tasks :
        \A i \in 1..Len(trace[t]) :
            /\ trace[t][i].op = "transform_data" =>
                  /\ i > 2
                  /\ trace[t][i - 1] = [op |-> "xcom_push_raw", ok |-> TRUE]
                  /\ trace[t][i - 2] = [op |-> "to_parquet_raw", ok |-> TRUE]
                  /\ OnBus(t, "raw_data_path", raw_path(t))
            /\ trace[t][i].op = "load_data" =>
                  /\ i > 2
                  /\ trace[t][i - 1] =
                        [op |-> "xcom_push_transformed", ok |-> TRUE]
                  /\ trace[t][i - 2] =
                        [op |-> "to_parquet_transformed", ok |-> TRUE]
                  /\ OnBus(t, "raw_data_path", raw_path(t))
                  /\ OnBus(t, "transformed_data_path", transformed_path(t))
            /\ trace[t][i] = [op |-> "to_parquet_raw", ok |-> TRUE]
                  /\ i < Len(trace[t]) =>
                     trace[t][i + 1].op = "xcom_push_raw"
            /\ trace[t][i] = [op |-> "to_parquet_transformed", ok |-> TRUE]
                  /\ i < Len(trace[t]) =>
                     trace[t][i + 1].op = "xcom_push_transformed"

\* An attempt whose load failed has ended with both paths on the bus.
C10_Witness ==
    \E t \in Tasks :
        /\ AtExit(t)
        /\ Failed(t, "load_data")
        /\ OnBus(t, "raw_data_path", raw_path(t))
        /\ OnBus(t, "transformed_data_path", transformed_path(t))

----------------------------------------------------------------------------
(* DateETL.transform_data. *)

\* The calendar date of a rental_date value.
CalendarDate(v) == <<v.y, v.m, v.d>>

\* The distinct calendar dates of the rows extracted.
DistinctDates ==
    {CalendarDate(extracted.rows[i].rental_date) :
        i \in 1..Len(extracted.rows)}

\* C8: the frame transform_data returns has one row per distinct calendar
\* date of the raw rows, K rows for K distinct dates, and the date_key of
\* its rows are 1..K, each once.
C8_OneRowPerDateKeys1toK ==
    date_pc = "transformed" =>
        LET out == df_transformed.rows
            K == Cardinality(DistinctDates)
        IN  /\ Len(out) = K
            /\ {CalendarDate(out[i].full_date) : i \in 1..Len(out)}
                  = DistinctDates
            /\ \A i, j \in 1..Len(out) :
                  i # j => out[i].full_date # out[j].full_date
            /\ {out[i].date_key : i \in 1..Len(out)} = 1..K
            /\ \A i, j \in 1..Len(out) :
                  i # j => out[i].date_key # out[j].date_key

\* Five raw rows of which two share a calendar date gave four rows.
C8_Witness ==
    /\ date_pc = "transformed"
    /\ Len(extracted.rows) = 5
    /\ Cardinality(DistinctDates) = 4
    /\ Len(df_transformed.rows) = 4
    /\ df_transformed.rows[4].date_key = 4

\* The statements of the try block that follow the publication of the raw
\* path.
LaterCalls ==
    {"transform_data", "to_parquet_transformed", "xcom_push_transformed",
     "load_data"}

\* C11 (as stated): when an attempt in which a later phase failed has run to
\* its end, every path it published on the bus names a file that exists in
\* the staging directory.
C11_PublishedArtifactExists ==
    \A t \in Tasks :
        AtExit(t) /\ orig[t] \in LaterCalls =>
            \A i \in 1..Len(xcom[t]) : xcom[t][i].value \in files

\* C11 (amended): a published path names an existing file while the attempt
\* is still inside its try block or except clause; when an attempt in which
\* a later phase failed has run to its end, raw_data_path is still on the
\* bus but the file it names is gone unless its removal failed, and the same
\* holds for transformed_data_path when it was published.
C11_PublishedArtifactRemoved ==
    \A t \in Tasks :
        /\ (/\ Running(t)
            /\ InSeq(TryBlock, pc[t]) \/ pc[t] = "except") =>
               \A i \in 1..Len(xcom[t]) : xcom[t][i].value \in files
        /\ AtExit(t) /\ orig[t] \in LaterCalls =>
               /\ OnBus(t, "raw_data_path", raw_path(t))
               /\ raw_path(t) \in files <=> Failed(t, "remove_raw")
               /\ OnBus(t, "transformed_data_path", transformed_path(t)) =>
                      (transformed_path(t) \in files
                           <=> Failed(t, "remove_transformed"))

\* load_data failed with both paths published, and the attempt ended with
\* both files removed.
C11_Witness ==
    \E t \in Tasks :
        /\ AtExit(t)
        /\ orig[t] = "load_data"
        /\ OnBus(t, "raw_data_path", raw_path(t))
        /\ OnBus(t, "transformed_data_path", transformed_path(t))
        /\ raw_path(t) \notin files
        /\ transformed_path(t) \notin files

\* C12 (as stated): the names under which two task executions stage are
\* distinct, so a staged file is replaced or removed only by a step of the
\* execution that wrote it, never by a step of a different execution.
C12_NoForeignOverwrite ==
    [][\A p \in StagedPaths :
           p \in files /\ writer'[p] # writer[p] =>
               run_pc'[writer[p]] # run_pc[writer[p]]]_vars

IsCleanupCall(c) == c.op \in CleanupCalls

\* The cleanup steps an attempt has made so far, in the order it made them.
CleanupOps(t) ==
    [i \in 1..Len(SelectSeq(trace[t], IsCleanupCall)) |->
        SelectSeq(trace[t], IsCleanupCall)[i].op]

\* C13 (as stated): when an attempt that entered the try block is about to
\* return or to propagate its error, it has made the four cleanup steps
\* once each, in the order remove raw, remove transformed, dispose source,
\* dispose warehouse, and both engines are disposed; this holds in every
\* attempt of a retried task.
C13_CleanupOnceInOrder ==
    \A t \in Tasks :
        AtExit(t) /\ Ok(t, "etl_class") =>
            /\ CleanupOps(t) = FinallyBlock
            /\ source_engine[t] = "disposed"
            /\ warehouse_engine[t] = "disposed"

IsRemove(s) == s \in {"remove_raw", "remove_transformed"}

\* C14: remove_file_safely removes the file of a path that holds one,
\* changes nothing on a path that holds none, and a second call leaves the
\* staging directory as the first call left it (a call in which os.remove
\* raised leaves the file, so a later call that succeeds is its first
\* removal); whether or not os.remove raised, the caller goes on with the
\* next statement of its finally block.
C14_RemoveIdempotentNeverRaises ==
    /\ [](\A p \in StagedPaths :
            /\ p \in files => remove_file_safely(files, p, FALSE) = files \ {p}
            /\ p \notin files =>
                   \A err \in BOOLEAN : remove_file_safely(files, p, err) = files
            /\ \A err1, err2 \in BOOLEAN :
                   (err1 => err2) =>
                       remove_file_safely(
                           remove_file_safely(files, p, err1), p, err2)
                         = remove_file_safely(files, p, err1))
    /\ [][\A e \in Executions :
              IsRemove(run_pc[e]) /\ run_pc'[e] # run_pc[e] =>
                  /\ run_pc'[e] = Succ(run_pc[e])
                  /\ files' \in {files, files \ {PathOf(e, run_pc[e])}}
                  /\ PathOf(e, run_pc[e]) \notin files => files' = files]_vars

\* Two executions of one task have both run their finally block to its end:
\* remove_file_safely was called twice on the same raw path, and the path
\* holds no file.
C14_Witness ==
    \E e1, e2 \in Executions :
        /\ e1 # e2
        /\ exec_raw_path(e1) = exec_raw_path(e2)
        /\ run_pc[e1] = "exit"
        /\ run_pc[e2] = "exit"
        /\ exec_raw_path(e1) \notin files

Called_get_config == returned # NotCalled

\* C15: get_config called with 'sakila', or with no argument, returns the
\* five source parameters of Config; called with 'sakila_dw' it returns the
\* five warehouse parameters; called with any other name it raises
\* ValueError and returns nothing.
C15_GetConfigByName ==
    Called_get_config =>
        /\ db_name \in {<<>>, <<"sakila">>} =>
               /\ returned.raised = "none"
               /\ returned.value =
                      {[user |-> Config.MYSQL_SOURCE_USER,
                        password |-> Config.MYSQL_SOURCE_ROOT_PASSWORD,
                        host |-> Config.MYSQL_SOURCE_HOST,
                        port |-> Config.MYSQL_SOURCE_PORT,
                        database |-> Config.MYSQL_SOURCE_DATABASE]}
        /\ db_name = <<"sakila_dw">> =>
               /\ returned.raised = "none"
               /\ returned.value =
                      {[user |-> Config.MYSQL_WAREHOUSE_USER,
                        password |-> Config.MYSQL_WAREHOUSE_ROOT_PASSWORD,
                        host |-> Config.MYSQL_WAREHOUSE_HOST,
                        port |-> Config.MYSQL_WAREHOUSE_PORT,
                        database |-> Config.MYSQL_WAREHOUSE_DATABASE]}
        /\ db_name \notin {<<>>, <<"sakila">>, <<"sakila_dw">>} =>
               /\ returned.raised = "ValueError"
               /\ returned.value = {}

\* get_config was called with a name that differs from 'sakila_dw' by a
\* trailing blank only, with source and warehouse on different hosts.
C15_Witness ==
    /\ Called_get_config
    /\ db_name = <<"sakila_dw ">>
    /\ returned.raised = "ValueError"
    /\ Config.MYSQL_SOURCE_HOST # Config.MYSQL_WAREHOUSE_HOST

RawDate(i) == extracted.rows[i].rental_date

\* The raw rows that are the first to bear their calendar date.
FirstRows ==
    {i \in 1..Len(extracted.rows) :
        \A j \in 1..(i - 1) : CalendarDate(RawDate(j)) # CalendarDate(RawDate(i))}

\* The position of first row i among the first rows.
Rank(i) == Cardinality({j \in FirstRows : j <= i})

\* C16: the rows transform_data returns are the first-seen rows of the
\* calendar dates in the order of their first appearance: the row with
\* date_key k bears the k-th distinct date of the raw rows, with the ISO
\* week and the month of the first raw row of that date.
C16_KeepsFirstInOrder ==
    date_pc = "transformed" =>
        LET out == df_transformed.rows
        IN  /\ Len(out) = Cardinality(FirstRows)
            /\ \A i \in FirstRows :
                  /\ out[Rank(i)].date_key = Rank(i)
                  /\ CalendarDate(out[Rank(i)].full_date)
                         = CalendarDate(RawDate(i))
                  /\ out[Rank(i)].rental_week = IsoWeek(RawDate(i))
                  /\ out[Rank(i)].rental_month = RawDate(i).m

\* A date came back after a row of another date: the rows returned are
\* fewer than the raw rows and the repeated date kept its first position.
C16_Witness ==
    /\ date_pc = "transformed"
    /\ \E i, j, k \in 1..Len(extracted.rows) :
          /\ i < j /\ j < k
          /\ i \in FirstRows /\ j \in FirstRows
          /\ CalendarDate(RawDate(k)) = CalendarDate(RawDate(i))
          /\ RawDate(k) # RawDate(i)
          /\ df_transformed.rows[Rank(i)].date_key < df_transformed.rows[Rank(j)].date_key
          /\ CalendarDate(df_transformed.rows[Rank(i)].full_date)
                 = CalendarDate(RawDate(i))

\* C17 (as stated): after transform_data has returned, the frame etl_tasks
\* holds in df_raw has the columns and the values of the frame that was
\* extracted and staged.
C17_RawUnchanged ==
    date_pc = "transformed" => df_raw = extracted

\* The keys an attempt has published, in the order it published them.
KeysOnBus(t) == [i \in 1..Len(xcom[t]) |-> xcom[t][i].key]

IsPrefix(s, full) ==
    /\ Len(s) <= Len(full)
    /\ \A i \in 1..Len(s) : s[i] = full[i]

\* C18: in every state the keys an attempt has published are a prefix of
\* raw_data_path, transformed_data_path, each under the path of its own
\* file, and load_data has been called only with both keys published.
C18_BusIsPrefix ==
    \A t \in Tasks :
        /\ IsPrefix(KeysOnBus(t), <<"raw_data_path", "transformed_data_path">>)
        /\ \A i \in 1..Len(xcom[t]) :
              xcom[t][i].value \in {raw_path(t), transformed_path(t)}
        /\ Called(t, "load_data") => Len(xcom[t]) = 2

\* One attempt has called load_data with both keys published while another
\* ended after a transform error with raw_data_path alone.
C18_Witness ==
    \E t, u \in Tasks :
        /\ Called(t, "load_data")
        /\ KeysOnBus(t) = <<"raw_data_path", "transformed_data_path">>
        /\ AtExit(u)
        /\ Failed(u, "transform_data")
        /\ KeysOnBus(u) = <<"raw_data_path">>

\* C19: when the constructor of the ETL object raised, the attempt ends
\* with that exception in flight, having made no other call: no file was
\* staged, nothing is on the bus, no phase and no cleanup step ran.
C19_ConstructorFailureBare ==
    \A t \in Tasks :
        AtExit(t) /\ Failed(t, "etl_class") =>
            /\ exc[t] = "etl_class"
            /\ trace[t] = <<[op |-> "etl_class", ok |-> FALSE]>>
            /\ xcom[t] = <<>>
            /\ \A c \in TryBlockCalls \cup CleanupCalls : ~Called(t, c)
            /\ try_number[t] = 1 =>
                   {raw_path(t), transformed_path(t)} \cap files = {}

\* The constructor raised on the second try of a task, and the attempt
\* ended with nothing on the bus.
C19_Witness ==
    \E t \in Tasks :
        /\ AtExit(t)
        /\ Failed(t, "etl_class")
        /\ try_number[t] = 2
        /\ xcom[t] = <<>>

====
